---- MODULE Spec2Model ----
(***************************************************************************)
(* Maintenance alert and notification engine of the truck tracker:         *)
(*   - checkMaintenanceDue, sendMaintenanceAlert, dailyMaintenanceCheck    *)
(*     (functions/index.js, kept in src/src/config/config.ts)              *)
(*   - clearMaintenanceAlert, addMaintenanceRecord (services/firebase.ts,  *)
(*     kept in src/unnamed/part_004)                                       *)
(* Time is counted in hours since an arbitrary epoch; the code counts      *)
(* milliseconds, every duration it uses is a whole number of hours.        *)
(***************************************************************************)
EXTENDS Integers, Sequences, FiniteSets, TLC

VARIABLES
  trucks,     \* Firestore collection 'trucks': document id -> document
  maintenance,\* Firestore collection 'maintenance': sequence of documents
  now,        \* wall clock (new Date()), in hours
  evalOut,    \* result of the last checkMaintenanceDue evaluation
  clearCall,  \* the clearMaintenanceAlert calls in flight, one per client
  pass,       \* the running daily / on-demand pass
  pending,    \* lastMaintenanceAlertSent writes issued and not yet settled
  mailbox,    \* digests the mail channel accepted: history of deliveries
  passLog,    \* history: one entry per finished pass
  cache,      \* PhotoCache.cache: the keys of the Map, in insertion order
  localStorage,\* the keys of the localStorage entries with the photo prefix
  photoLog    \* history: photo keys handed out, setItem calls that threw

\* the state of the photo cache of one browser
photoVars == <<cache, localStorage, photoLog>>

vars == <<trucks, maintenance, now, evalOut, clearCall, pass, pending, mailbox, passLog,
          cache, localStorage, photoLog>>

(***************************************************************************)
(* Program constants                                                       *)
(***************************************************************************)
HoursPerDay == 24
SevenDays == 7 * HoursPerDay
OilInterval == 5000
OilMargin == 500
BrakeInterval == 25000
BrakeMargin == 2500
TireInterval == 40000
TireMargin == 4000
WarningWindowDays == 30
maxRetries == 3

\* a field missing from a Firestore document (undefined in the code)
Absent == -1

Kinds == {"oilChange", "inspection", "oemsInspection", "brakeChange", "tireChange"}
MileageKinds == {"oilChange", "brakeChange", "tireChange"}
DateKinds == {"inspection", "oemsInspection"}

\* the fixed distribution list, in the order of the recipients array
recipients == <<"john.browning", "deathlikesnake6", "tw4001", "sergentlatosha", "charley.egnor">>
Recipients == {recipients[i] : i \in 1..Len(recipients)}

\* the documents of the 'trucks' collection, in the order the query returns them
TruckOrder == <<"t1", "t2">>
TruckIds == {TruckOrder[i] : i \in 1..Len(TruckOrder)}

(***************************************************************************)
(* Rule evaluator: checkMaintenanceDue                                     *)
(***************************************************************************)
\* Math.ceil(a / b) for b > 0
Ceil(a, b) == 0 - ((0 - a) \div b)

\* Math.ceil((expiry - now) / (1000 * 60 * 60 * 24))
daysUntilExpiry(expiry, t) == Ceil(expiry - t, HoursPerDay)

\* the comparison turned around: only stamps older than the window count as recent
isRecentMutant(stamp, sevenDaysAgo) == stamp # Absent /\ stamp < sevenDaysAgo

\* `stamp && stamp > sevenDaysAgo`: the comparison of both seven-day gates
isRecent(stamp, sevenDaysAgo) == stamp # Absent /\ stamp > sevenDaysAgo

\* `cleared >= sevenDaysAgo`: a clearance exactly seven days old still gates
isAlertClearedRecentlyMutant(truck, alertType, sevenDaysAgo) ==
  truck.alertsCleared[alertType] # Absent /\ truck.alertsCleared[alertType] >= sevenDaysAgo

\* the helper isAlertClearedRecently of the loop body
isAlertClearedRecently(truck, alertType, sevenDaysAgo) ==
  isRecent(truck.alertsCleared[alertType], sevenDaysAgo)

\* `lastAlertDate >= sevenDaysAgo`: a batch exactly seven days old still skips
skipTruckMutant(truck, testMode, sevenDaysAgo) ==
  /\ ~testMode
  /\ truck.lastMaintenanceAlertSent # Absent
  /\ truck.lastMaintenanceAlertSent >= sevenDaysAgo

\* the test flag is not looked at: a truck batched recently is skipped in test mode too
skipTruckAlwaysMutant(truck, testMode, sevenDaysAgo) ==
  isRecent(truck.lastMaintenanceAlertSent, sevenDaysAgo)

\* the batch gate: `continue` for a truck alerted within the last 7 days
skipTruck(truck, testMode, sevenDaysAgo) ==
  ~testMode /\ isRecent(truck.lastMaintenanceAlertSent, sevenDaysAgo)

\* the overdue comparison written > instead of >=
mileageAlertMutant(truck, alertType, last, interval, margin, sevenDaysAgo) ==
  LET next == (IF last = Absent THEN 0 ELSE last) + interval
      cleared == isAlertClearedRecently(truck, alertType, sevenDaysAgo)
  IN  IF truck.mileage > next /\ ~cleared
        THEN <<[type |-> alertType, priority |-> "overdue", n |-> truck.mileage - next]>>
      ELSE IF truck.mileage >= next - margin /\ ~cleared
        THEN <<[type |-> alertType, priority |-> "due-soon", n |-> next - truck.mileage]>>
      ELSE <<>>

\* one mileage-interval check: the alerts it pushes (none or one)
mileageAlert(truck, alertType, last, interval, margin, sevenDaysAgo) ==
  LET next == (IF last = Absent THEN 0 ELSE last) + interval
      cleared == isAlertClearedRecently(truck, alertType, sevenDaysAgo)
  IN  IF truck.mileage >= next /\ ~cleared
        THEN <<[type |-> alertType, priority |-> "overdue", n |-> truck.mileage - next]>>
      ELSE IF truck.mileage >= next - margin /\ ~cleared
        THEN <<[type |-> alertType, priority |-> "due-soon", n |-> next - truck.mileage]>>
      ELSE <<>>

\* building the message calls last.toLocaleString(): a TypeError when the
\* field is missing from the document
mileageThrows(truck, alertType, last, interval, margin, sevenDaysAgo) ==
  last = Absent /\ mileageAlert(truck, alertType, last, interval, margin, sevenDaysAgo) # <<>>

\* the due-soon window written < 30 instead of <= 30
dateAlertMutant(truck, alertType, expiry, t, sevenDaysAgo) ==
  IF expiry # Absent /\ ~isAlertClearedRecently(truck, alertType, sevenDaysAgo)
    THEN LET days == daysUntilExpiry(expiry, t)
         IN  IF days <= 0
               THEN <<[type |-> alertType, priority |-> "overdue", n |-> days]>>
             ELSE IF days < WarningWindowDays
               THEN <<[type |-> alertType, priority |-> "due-soon", n |-> days]>>
             ELSE <<>>
    ELSE <<>>

\* one date-deadline check: the alerts it pushes (none or one)
dateAlert(truck, alertType, expiry, t, sevenDaysAgo) ==
  IF expiry # Absent /\ ~isAlertClearedRecently(truck, alertType, sevenDaysAgo)
    THEN LET days == daysUntilExpiry(expiry, t)
         IN  IF days <= 0
               THEN <<[type |-> alertType, priority |-> "overdue", n |-> days]>>
             ELSE IF days <= WarningWindowDays
               THEN <<[type |-> alertType, priority |-> "due-soon", n |-> days]>>
             ELSE <<>>
    ELSE <<>>

oilAlert(truck, sevenDaysAgo) ==
  mileageAlert(truck, "oilChange", truck.lastOilChangeMileage, OilInterval, OilMargin, sevenDaysAgo)
brakeAlert(truck, sevenDaysAgo) ==
  mileageAlert(truck, "brakeChange", truck.lastBrakeChangeMileage, BrakeInterval, BrakeMargin, sevenDaysAgo)
tireAlert(truck, sevenDaysAgo) ==
  mileageAlert(truck, "tireChange", truck.lastTireChangeMileage, TireInterval, TireMargin, sevenDaysAgo)

\* the two inspection checks moved behind the mileage checks
maintenanceAlertsMutant(truck, t) ==
  LET sevenDaysAgo == t - SevenDays
  IN  oilAlert(truck, sevenDaysAgo)
      \o brakeAlert(truck, sevenDaysAgo)
      \o tireAlert(truck, sevenDaysAgo)
      \o dateAlert(truck, "inspection", truck.inspectionStickerExpiry, t, sevenDaysAgo)
      \o dateAlert(truck, "oemsInspection", truck.oemsInspectionExpiry, t, sevenDaysAgo)

\* the body of the loop for one truck that is not skipped: maintenanceAlerts
maintenanceAlerts(truck, t) ==
  LET sevenDaysAgo == t - SevenDays
  IN  oilAlert(truck, sevenDaysAgo)
      \o dateAlert(truck, "inspection", truck.inspectionStickerExpiry, t, sevenDaysAgo)
      \o dateAlert(truck, "oemsInspection", truck.oemsInspectionExpiry, t, sevenDaysAgo)
      \o brakeAlert(truck, sevenDaysAgo)
      \o tireAlert(truck, sevenDaysAgo)

\* the loop body throws while it formats a message
truckThrows(truck, t) ==
  LET sevenDaysAgo == t - SevenDays
  IN  \/ mileageThrows(truck, "oilChange", truck.lastOilChangeMileage, OilInterval, OilMargin, sevenDaysAgo)
      \/ mileageThrows(truck, "brakeChange", truck.lastBrakeChangeMileage, BrakeInterval, BrakeMargin, sevenDaysAgo)
      \/ mileageThrows(truck, "tireChange", truck.lastTireChangeMileage, TireInterval, TireMargin, sevenDaysAgo)

\* generateTruckMaintenanceHtml puts the OUT OF SERVICE banner above the alerts
outOfServiceBanner(truck) == truck.status = "out-of-service"

\* hasOverdue of one truck
hasOverdue(truck, t) ==
  LET al == maintenanceAlerts(truck, t)
      over(k) == \E i \in 1..Len(al) : al[i].type = k /\ al[i].priority = "overdue"
      miles(k) == al[CHOOSE i \in 1..Len(al) : al[i].type = k].n
  IN  \/ over("oilChange") \/ over("inspection") \/ over("oemsInspection")
      \/ (over("brakeChange") /\ miles("brakeChange") > 1000)
      \/ (over("tireChange") /\ miles("tireChange") > 2000)

\* the out-of-service test is left out of the condition
qualifiesMutant(truck, testMode, t) ==
  /\ ~skipTruck(truck, testMode, t - SevenDays)
  /\ Len(maintenanceAlerts(truck, t)) > 0

\* the truck is pushed to trucksWithMaintenance
qualifies(truck, testMode, t) ==
  /\ ~skipTruck(truck, testMode, t - SevenDays)
  /\ (Len(maintenanceAlerts(truck, t)) > 0 \/ truck.status = "out-of-service")

\* the alert list is created once, outside the loop over the trucks: every
\* truck of the batch carries the alerts of all the trucks looked at
checkMaintenanceDueMutant(db, testMode, t) ==
  LET looked(id) == ~skipTruck(db[id], testMode, t - SevenDays)
      inBatch(id) == qualifies(db[id], testMode, t)
      ids == SelectSeq(TruckOrder, inBatch)
      shared == IF looked(TruckOrder[1]) THEN maintenanceAlerts(db[TruckOrder[1]], t) ELSE <<>>
  IN  [threw |-> \E id \in TruckIds : looked(id) /\ truckThrows(db[id], t),
       trucksWithMaintenance |->
         [i \in 1..Len(ids) |->
            [id |-> ids[i],
             alerts |-> IF ids[i] = TruckOrder[1] THEN maintenanceAlerts(db[ids[i]], t)
                        ELSE shared \o maintenanceAlerts(db[ids[i]], t),
             hasOverdue |-> hasOverdue(db[ids[i]], t)]]]

\* checkMaintenanceDue(testMode) over a snapshot db of the collection, at time t
checkMaintenanceDue(db, testMode, t) ==
  LET looked(id) == ~skipTruck(db[id], testMode, t - SevenDays)
      inBatch(id) == qualifies(db[id], testMode, t)
      ids == SelectSeq(TruckOrder, inBatch)
  IN  [threw |-> \E id \in TruckIds : looked(id) /\ truckThrows(db[id], t),
       trucksWithMaintenance |->
         [i \in 1..Len(ids) |->
            [id |-> ids[i],
             alerts |-> maintenanceAlerts(db[ids[i]], t),
             hasOverdue |-> hasOverdue(db[ids[i]], t)]]]

(***************************************************************************)
(* On-screen evaluator: subscribeToTrucks and TruckCard.getMaintenanceAlerts*)
(***************************************************************************)
\* safeDate: a missing date becomes `new Date()`, the time of the snapshot
safeDate(value, t) == IF value = Absent THEN t ELSE value

\* truckWithDefaults: the record subscribeToTrucks hands to the cards, for a
\* snapshot received at time t
truckWithDefaults(cleanData, t) ==
  [cleanData EXCEPT
     !.lastOilChangeMileage = IF @ = Absent THEN 0 ELSE @,
     !.lastBrakeChangeMileage = IF @ = Absent THEN 0 ELSE @,
     !.lastTireChangeMileage = IF @ = Absent THEN 0 ELSE @,
     !.inspectionStickerExpiry = safeDate(@, t),
     !.oemsInspectionExpiry = safeDate(@, t)]

\* getMaintenanceAlerts of a card: the same five checks, in the same order,
\* over the record with its defaults
getMaintenanceAlerts(truck, t) ==
  LET sevenDaysAgo == t - SevenDays
  IN  mileageAlert(truck, "oilChange", truck.lastOilChangeMileage, OilInterval, OilMargin,
                   sevenDaysAgo)
      \o dateAlert(truck, "inspection", truck.inspectionStickerExpiry, t, sevenDaysAgo)
      \o dateAlert(truck, "oemsInspection", truck.oemsInspectionExpiry, t, sevenDaysAgo)
      \o mileageAlert(truck, "brakeChange", truck.lastBrakeChangeMileage, BrakeInterval,
                      BrakeMargin, sevenDaysAgo)
      \o mileageAlert(truck, "tireChange", truck.lastTireChangeMileage, TireInterval,
                      TireMargin, sevenDaysAgo)

(***************************************************************************)
(* Documents the evaluator is run on                                       *)
(***************************************************************************)
\* the instant the evaluation inputs are laid out around (midnight of day 40)
T0 == 40 * HoursPerDay
FarAway == T0 + 100 * HoursPerDay

NeverCleared == [k \in Kinds |-> Absent]

\* a truck with nothing due
BaseTruck ==
  [status |-> "in-service", mileage |-> 100000,
   lastOilChangeMileage |-> 100000, lastBrakeChangeMileage |-> 100000,
   lastTireChangeMileage |-> 100000,
   inspectionStickerExpiry |-> FarAway, oemsInspectionExpiry |-> FarAway,
   alertsCleared |-> NeverCleared, lastMaintenanceAlertSent |-> Absent]

\* odometer readings around every threshold of the three mileage rules
Mileages == {4499, 4500, 100999, 101000, 102499, 102500, 104499, 104500, 104999, 105000, 105001}

\* timestamps around the seven-day window seen from T0 and T0 + 12h
Stamps == {Absent, T0 - SevenDays, T0 - SevenDays + 12, T0 - HoursPerDay}

\* expiry dates around today and the 30-day window, one of them not at midnight
Expiries == {Absent, T0 - HoursPerDay, T0, T0 + HoursPerDay, T0 + 30 * HoursPerDay,
             T0 + 30 * HoursPerDay + 12, T0 + 31 * HoursPerDay}

MileageDocs ==
  {[BaseTruck EXCEPT !.mileage = m, !.lastOilChangeMileage = lo,
                     !.lastBrakeChangeMileage = lb, !.lastTireChangeMileage = lt,
                     !.alertsCleared = [NeverCleared EXCEPT !["oilChange"] = co,
                                          !["brakeChange"] = cb, !["tireChange"] = ct]] :
     m \in Mileages, lo \in {Absent, 0, 100000}, lb \in {0, 80000}, lt \in {Absent, 65000},
     co \in Stamps, cb \in {Absent, T0 - HoursPerDay}, ct \in {Absent, T0 - HoursPerDay}}

DateDocs ==
  {[BaseTruck EXCEPT !.mileage = m, !.inspectionStickerExpiry = e1, !.oemsInspectionExpiry = e2,
                     !.alertsCleared = [NeverCleared EXCEPT !["inspection"] = c1,
                                          !["oemsInspection"] = c2]] :
     m \in {104000, 105000}, e1 \in Expiries, e2 \in Expiries,
     c1 \in Stamps, c2 \in {Absent, T0 - HoursPerDay}}

GateDocs ==
  {[BaseTruck EXCEPT !.status = st, !.mileage = m, !.lastMaintenanceAlertSent = ls,
                     !.inspectionStickerExpiry = e1,
                     !.alertsCleared = [NeverCleared EXCEPT !["oilChange"] = co]] :
     st \in {"in-service", "out-of-service"}, m \in {104000, 105000}, ls \in Stamps,
     e1 \in {FarAway, T0}, co \in {Absent, T0 - HoursPerDay}}

\* the second truck of the fleet: healthy, alerting, alerting and batched
\* recently or exactly seven days ago, out of service, or missing a field
OtherDocs ==
  {BaseTruck,
   [BaseTruck EXCEPT !.mileage = 105000],
   [BaseTruck EXCEPT !.mileage = 105000, !.lastMaintenanceAlertSent = T0 - HoursPerDay],
   [BaseTruck EXCEPT !.mileage = 105000, !.lastMaintenanceAlertSent = T0 - SevenDays],
   [BaseTruck EXCEPT !.status = "out-of-service"],
   [BaseTruck EXCEPT !.mileage = 105000, !.lastOilChangeMileage = Absent]}

\* one document for every combination of the five kinds: at 105000 miles a
\* mileage kind fires when it was last serviced a full interval ago, an
\* inspection when it expires today
ComboDocs ==
  {[BaseTruck EXCEPT !.mileage = 105000,
                     !.lastOilChangeMileage = IF "oilChange" \in S THEN 100000 ELSE 104000,
                     !.lastBrakeChangeMileage = IF "brakeChange" \in S THEN 80000 ELSE 100000,
                     !.lastTireChangeMileage = IF "tireChange" \in S THEN 65000 ELSE 100000,
                     !.inspectionStickerExpiry = IF "inspection" \in S THEN T0 ELSE FarAway,
                     !.oemsInspectionExpiry = IF "oemsInspection" \in S THEN T0 ELSE FarAway] :
     S \in SUBSET Kinds}

\* a browser that has cached no photo yet
NoPhotoLog == [inserted |-> 0, quota |-> 0]
NoPhotos == cache = <<>> /\ localStorage = {} /\ photoLog = NoPhotoLog

NoEval == [done |-> FALSE, testMode |-> FALSE, threw |-> FALSE, trucksWithMaintenance |-> <<>>]
NoPass == [pc |-> "idle", kind |-> "daily", testMode |-> FALSE, id |-> 0, count |-> 0,
           outcome |-> "none", trucksWithMaintenance |-> <<>>]

InitEval ==
  /\ \E d1 \in MileageDocs \cup DateDocs \cup GateDocs \cup ComboDocs, d2 \in OtherDocs :
       trucks = [id \in TruckIds |-> IF id = TruckOrder[1] THEN d1 ELSE d2]
  /\ now \in {T0, T0 + 12}
  /\ evalOut = NoEval
  /\ maintenance = <<>>
  /\ clearCall = <<>>
  /\ pass = NoPass
  /\ pending = {}
  /\ mailbox = {}
  /\ passLog = <<>>
  /\ NoPhotos

\* one run of checkMaintenanceDue over the collection
Evaluate(testMode) ==
  /\ ~evalOut.done
  /\ LET r == checkMaintenanceDue(trucks, testMode, now)
     IN  evalOut' = [done |-> TRUE, testMode |-> testMode, threw |-> r.threw,
                     trucksWithMaintenance |-> IF r.threw THEN <<>> ELSE r.trucksWithMaintenance]
  /\ UNCHANGED <<photoVars, trucks, maintenance, now, clearCall, pass, pending, mailbox, passLog>>

\* checkMaintenanceDue is run again over the same collection
Reevaluate(testMode) ==
  /\ evalOut.done
  /\ LET r == checkMaintenanceDue(trucks, testMode, now)
     IN  evalOut' = [done |-> TRUE, testMode |-> testMode, threw |-> r.threw,
                     trucksWithMaintenance |-> IF r.threw THEN <<>> ELSE r.trucksWithMaintenance]
  /\ UNCHANGED <<photoVars, trucks, maintenance, now, clearCall, pass, pending, mailbox, passLog>>

NextEval ==
  \/ \E testMode \in BOOLEAN : Evaluate(testMode)
  \/ \E testMode \in BOOLEAN : Reevaluate(testMode)

SpecEval == InitEval /\ [][NextEval]_vars

(***************************************************************************)
(* Clearance workflow: clearMaintenanceAlert                               *)
(***************************************************************************)
\* days the clock may advance after T0
MaxDays == 9
\* clearMaintenanceAlert calls made in one behaviour
MaxCalls == 2

\* the browser sessions that call clearMaintenanceAlert
Clients == {"c1", "c2"}

\* arguments of the calls; "t9" is the id of no document
ClearTruckIds == {"t1", "t9"}
ClearKinds == {"oilChange", "inspection"}
Notes == {"tires rotated, oil fine", ""}
NoUser == "undefined"
UserIds == {"u1", NoUser}

NoTruckData == [alertsCleared |-> NeverCleared, mileage |-> 0]
IdleCall ==
  [pc |-> "idle", n |-> 0, truckId |-> "t1", alertType |-> "oilChange", notes |-> "",
   userId |-> NoUser, truckData |-> NoTruckData, retryCount |-> 0,
   before |-> Absent, error |-> "none"]

\* trucks of the clearance runs: oil overdue, and a sticker that expired yesterday
OilOverdueTruck == [BaseTruck EXCEPT !.mileage = 105000]
OilAndStickerTruck ==
  [BaseTruck EXCEPT !.mileage = 105000, !.inspectionStickerExpiry = T0 - HoursPerDay]

InitClear ==
  /\ \E d1 \in {OilOverdueTruck, OilAndStickerTruck} :
       trucks = [id \in TruckIds |-> IF id = TruckOrder[1] THEN d1 ELSE BaseTruck]
  /\ maintenance = <<>>
  /\ now = T0
  /\ evalOut = NoEval
  /\ \E uid \in UserIds : clearCall = [c \in Clients |-> [IdleCall EXCEPT !.userId = uid]]
  /\ pass = NoPass
  /\ pending = {}
  /\ mailbox = {}
  /\ passLog = <<>>
  /\ NoPhotos

InFlight(c) == clearCall[c].pc \in {"getDoc", "updateDoc", "addDoc"}
CallsMade == clearCall["c1"].n + clearCall["c2"].n

\* the clock advances between two calls or two passes
Tick(step) ==
  /\ now + step <= T0 + MaxDays * HoursPerDay
  /\ \A c \in Clients : ~InFlight(c)
  /\ pass.pc = "idle"
  /\ pending = {}
  /\ now' = now + step
  /\ UNCHANGED <<photoVars, trucks, maintenance, evalOut, clearCall, pass, pending, mailbox, passLog>>

\* handleClearAlert calls clearMaintenanceAlert(truckId, alertType, notes, user?.uid);
\* user is the one signed in to the session
CallClear(c, truckId, alertType, notes) ==
  /\ ~InFlight(c)
  /\ CallsMade < MaxCalls
  /\ clearCall' = [clearCall EXCEPT ![c] =
       [pc |-> "getDoc", n |-> clearCall[c].n + 1, truckId |-> truckId,
        alertType |-> alertType, notes |-> notes, userId |-> clearCall[c].userId,
        truckData |-> NoTruckData, retryCount |-> 0,
        before |-> IF truckId \in TruckIds THEN trucks[truckId].alertsCleared[alertType]
                                           ELSE Absent,
        error |-> "none"]]
  /\ UNCHANGED <<photoVars, trucks, maintenance, now, evalOut, pass, pending, mailbox, passLog>>

\* await getDoc(truckRef): the read fails, the truck is missing, or truckData is kept
GetDoc(c, readOk) ==
  /\ clearCall[c].pc = "getDoc"
  /\ LET call == clearCall[c]
     IN  clearCall' = [clearCall EXCEPT ![c] =
           IF ~readOk
             THEN [call EXCEPT !.pc = "threw", !.error = "getDoc failed"]
           ELSE IF call.truckId \notin TruckIds
             THEN [call EXCEPT !.pc = "threw", !.error = "Truck not found"]
           ELSE [call EXCEPT !.pc = "updateDoc",
                   !.truckData = [alertsCleared |-> trucks[call.truckId].alertsCleared,
                                  mileage |-> trucks[call.truckId].mileage]]]
  /\ UNCHANGED <<photoVars, trucks, maintenance, now, evalOut, pass, pending, mailbox, passLog>>

\* a rejected updateDoc is only logged and the call goes on to the record
UpdateDocSwallowMutant(c, writeOk) ==
  /\ clearCall[c].pc = "updateDoc"
  /\ LET call == clearCall[c]
     IN  /\ trucks' = IF writeOk
                        THEN [trucks EXCEPT ![call.truckId].alertsCleared =
                                [call.truckData.alertsCleared EXCEPT ![call.alertType] = now]]
                        ELSE trucks
         /\ clearCall' = [clearCall EXCEPT ![c].pc = "addDoc"]
  /\ UNCHANGED <<photoVars, maintenance, now, evalOut, pass, pending, mailbox, passLog>>

\* a second clear of a kind that already has an entry is turned down
UpdateDocMutant(c, writeOk) ==
  /\ clearCall[c].pc = "updateDoc"
  /\ LET call == clearCall[c]
     IN  IF writeOk /\ call.truckData.alertsCleared[call.alertType] = Absent
           THEN /\ trucks' = [trucks EXCEPT ![call.truckId].alertsCleared =
                                [call.truckData.alertsCleared EXCEPT ![call.alertType] = now]]
                /\ clearCall' = [clearCall EXCEPT ![c].pc = "addDoc"]
           ELSE /\ trucks' = trucks
                /\ clearCall' = [clearCall EXCEPT ![c].pc = "threw",
                                   ![c].error = IF writeOk THEN "Alert already cleared"
                                                           ELSE "updateDoc failed"]
  /\ UNCHANGED <<photoVars, maintenance, now, evalOut, pass, pending, mailbox, passLog>>

\* await updateDoc(truckRef, {alertsCleared: {...currentAlertsCleared, [alertType]: new Date()}})
UpdateDoc(c, writeOk) ==
  /\ clearCall[c].pc = "updateDoc"
  /\ LET call == clearCall[c]
     IN  IF writeOk
           THEN /\ trucks' = [trucks EXCEPT ![call.truckId].alertsCleared =
                                [call.truckData.alertsCleared EXCEPT ![call.alertType] = now]]
                /\ clearCall' = [clearCall EXCEPT ![c].pc = "addDoc"]
           ELSE /\ trucks' = trucks
                /\ clearCall' = [clearCall EXCEPT ![c].pc = "threw", ![c].error = "updateDoc failed"]
  /\ UNCHANGED <<photoVars, maintenance, now, evalOut, pass, pending, mailbox, passLog>>

\* the maintenance record documenting the dismissal
AccountabilityRecord(c) ==
  LET call == clearCall[c]
  IN  [truckId |-> call.truckId, type |-> "other", alertType |-> call.alertType,
       date |-> now, mileage |-> call.truckData.mileage, notes |-> call.notes,
       createdBy |-> IF call.userId = NoUser THEN "alert-clear-system" ELSE call.userId,
       call |-> <<c, call.n>>]

\* the give-up test written > instead of >=: a fourth attempt is made
AddDocExtraMutant(c, appendOk) ==
  /\ clearCall[c].pc = "addDoc"
  /\ IF appendOk
       THEN /\ maintenance' = Append(maintenance, AccountabilityRecord(c))
            /\ clearCall' = [clearCall EXCEPT ![c].pc = "returned"]
       ELSE /\ maintenance' = maintenance
            /\ clearCall' = [clearCall EXCEPT ![c] =
                 IF @.retryCount + 1 > maxRetries
                   THEN [@ EXCEPT !.pc = "threw", !.retryCount = @ + 1,
                                  !.error = "Failed to create maintenance record"]
                   ELSE [@ EXCEPT !.retryCount = @ + 1]]
  /\ UNCHANGED <<photoVars, trucks, now, evalOut, pass, pending, mailbox, passLog>>

\* the error is swallowed once the retries are used up: the call returns normally
AddDocMutant(c, appendOk) ==
  /\ clearCall[c].pc = "addDoc"
  /\ IF appendOk
       THEN /\ maintenance' = Append(maintenance, AccountabilityRecord(c))
            /\ clearCall' = [clearCall EXCEPT ![c].pc = "returned"]
       ELSE /\ maintenance' = maintenance
            /\ clearCall' = [clearCall EXCEPT ![c] =
                 IF @.retryCount + 1 >= maxRetries
                   THEN [@ EXCEPT !.pc = "returned", !.retryCount = @ + 1]
                   ELSE [@ EXCEPT !.retryCount = @ + 1]]
  /\ UNCHANGED <<photoVars, trucks, now, evalOut, pass, pending, mailbox, passLog>>

\* one turn of the retry loop: await addDoc(collection(db, 'maintenance'), {...})
AddDoc(c, appendOk) ==
  /\ clearCall[c].pc = "addDoc"
  /\ IF appendOk
       THEN /\ maintenance' = Append(maintenance, AccountabilityRecord(c))
            /\ clearCall' = [clearCall EXCEPT ![c].pc = "returned"]
       ELSE /\ maintenance' = maintenance
            /\ clearCall' = [clearCall EXCEPT ![c] =
                 IF @.retryCount + 1 >= maxRetries
                   THEN [@ EXCEPT !.pc = "threw", !.retryCount = @ + 1,
                                  !.error = "Failed to create maintenance record"]
                   ELSE [@ EXCEPT !.retryCount = @ + 1]]
  /\ UNCHANGED <<photoVars, trucks, now, evalOut, pass, pending, mailbox, passLog>>

\* one session clearing alerts over the days
NextClear ==
  \/ Tick(HoursPerDay)
  \/ \E truckId \in ClearTruckIds, alertType \in ClearKinds, notes \in Notes :
       CallClear("c1", truckId, alertType, notes)
  \/ \E readOk \in BOOLEAN : GetDoc("c1", readOk)
  \/ \E writeOk \in BOOLEAN : UpdateDoc("c1", writeOk)
  \/ \E appendOk \in BOOLEAN : AddDoc("c1", appendOk)

SpecClear == InitClear /\ [][NextClear]_vars

\* two sessions clearing alerts of the same truck at the same time: the
\* awaits of one call interleave with those of the other
NextRace ==
  \/ \E c \in Clients, alertType \in ClearKinds :
       CallClear(c, TruckOrder[1], alertType, "tires rotated, oil fine")
  \/ \E c \in Clients, readOk \in BOOLEAN : GetDoc(c, readOk)
  \/ \E c \in Clients, writeOk \in BOOLEAN : UpdateDoc(c, writeOk)
  \/ \E c \in Clients, appendOk \in BOOLEAN : AddDoc(c, appendOk)

SpecRace == InitClear /\ [][NextRace]_vars

(***************************************************************************)
(* Passes: dailyMaintenanceCheck and sendMaintenanceAlert                  *)
(***************************************************************************)
\* passes triggered in one behaviour
MaxPasses == 2
\* the passes are triggered four days apart: less than seven days after the
\* previous one, eight days after the one before
PassStep == 4 * HoursPerDay

\* the recipients the channel rejects in one fan-out: none, or the third one
FailSets == {{}, {recipients[3]}}

OutOfServiceTruck == [BaseTruck EXCEPT !.status = "out-of-service"]
BatchedTruck ==
  [BaseTruck EXCEPT !.inspectionStickerExpiry = T0 - HoursPerDay,
                    !.lastMaintenanceAlertSent = T0 - 3 * HoursPerDay]
ClearedOilTruck ==
  [OilAndStickerTruck EXCEPT !.alertsCleared = [NeverCleared EXCEPT !["oilChange"] = T0 - HoursPerDay]]
MissingFieldTruck == [BaseTruck EXCEPT !.mileage = 105000, !.lastOilChangeMileage = Absent]

InitPass ==
  /\ \E d1 \in {OilOverdueTruck, ClearedOilTruck},
        d2 \in {BaseTruck, OutOfServiceTruck, BatchedTruck, MissingFieldTruck} :
       trucks = [id \in TruckIds |-> IF id = TruckOrder[1] THEN d1 ELSE d2]
  /\ maintenance = <<>>
  /\ now = T0
  /\ evalOut = NoEval
  /\ clearCall = [c \in Clients |-> IdleCall]
  /\ pass = NoPass
  /\ pending = {}
  /\ mailbox = {}
  /\ passLog = <<>>
  /\ NoPhotos

NoResponse == [status |-> 0, ok |-> FALSE, messageIds |-> {}, accepted |-> {}, rejected |-> {}]

\* the ids of the trucks of a batch
BatchIds(list) == {list[i].id : i \in 1..Len(list)}

\* the early return on an empty list is missing: an empty digest goes out
StartPassMutant(kind, testMode, readOk) ==
  /\ pass.pc = "idle"
  /\ pass.count < MaxPasses
  /\ kind = "daily" => ~testMode
  /\ LET r == checkMaintenanceDue(trucks, testMode, now)
         started == [NoPass EXCEPT !.count = pass.count + 1]
     IN  IF ~readOk \/ r.threw
           THEN /\ pass' = [started EXCEPT !.outcome = "threw"]
                /\ passLog' = passLog
         ELSE /\ pass' = [started EXCEPT !.pc = "send", !.kind = kind, !.testMode = testMode,
                                         !.id = Len(passLog) + 1, !.outcome = "running",
                                         !.trucksWithMaintenance = r.trucksWithMaintenance]
              /\ passLog' = Append(passLog,
                    [kind |-> kind, testMode |-> testMode, t |-> now,
                     batch |-> BatchIds(r.trucksWithMaintenance), sent |-> FALSE,
                     failed |-> {}, written |-> {}, response |-> NoResponse])
  /\ UNCHANGED <<photoVars, trucks, maintenance, now, evalOut, clearCall, pending, mailbox>>

\* the first part of both handlers: checkMaintenanceDue(testMode), then the
\* early return on an empty list; the daily pass never passes testMode.
\* A pass that finds a batch opens an entry of passLog for its digest.
StartPass(kind, testMode, readOk) ==
  /\ pass.pc = "idle"
  /\ pass.count < MaxPasses
  /\ kind = "daily" => ~testMode
  /\ LET r == checkMaintenanceDue(trucks, testMode, now)
         started == [NoPass EXCEPT !.count = pass.count + 1]
     IN  IF ~readOk \/ r.threw
           THEN /\ pass' = [started EXCEPT !.outcome = "threw"]
                /\ passLog' = passLog
         ELSE IF Len(r.trucksWithMaintenance) = 0
           THEN /\ pass' = [started EXCEPT !.outcome = "no-maintenance"]
                /\ passLog' = passLog
         ELSE /\ pass' = [started EXCEPT !.pc = "send", !.kind = kind, !.testMode = testMode,
                                         !.id = Len(passLog) + 1, !.outcome = "running",
                                         !.trucksWithMaintenance = r.trucksWithMaintenance]
              /\ passLog' = Append(passLog,
                    [kind |-> kind, testMode |-> testMode, t |-> now,
                     batch |-> BatchIds(r.trucksWithMaintenance), sent |-> FALSE,
                     failed |-> {}, written |-> {}, response |-> NoResponse])
  /\ UNCHANGED <<photoVars, trucks, maintenance, now, evalOut, clearCall, pending, mailbox>>

\* the update promises one pass creates: one write per truck of the batch
UpdatePromises(id, list) ==
  {[pass |-> id, truck |-> tid, stamp |-> now] : tid \in BatchIds(list)}

\* the rejections are not looked at (Promise.allSettled without a check)
AfterSendMutant(failed) ==
  LET id == pass.id
  IN  /\ pending' = pending \cup UpdatePromises(id, pass.trucksWithMaintenance)
      /\ passLog' = [passLog EXCEPT ![id].sent = TRUE, ![id].failed = failed]
      /\ pass' = IF pass.kind = "http"
                   THEN [NoPass EXCEPT !.count = pass.count, !.outcome = "sent"]
                   ELSE [pass EXCEPT !.pc = "await"]

\* what Promise.all(sendPromises) leads to: the updates are issued and, on
\* demand, the response sent; or the catch block is entered
AfterSend(failed) ==
  LET id == pass.id
  IN  IF failed = {}
        THEN /\ pending' = pending \cup UpdatePromises(id, pass.trucksWithMaintenance)
             /\ passLog' = [passLog EXCEPT
                  ![id].sent = TRUE,
                  ![id].response =
                    IF pass.kind = "http"
                      THEN [status |-> 200, ok |-> TRUE,
                            messageIds |-> {<<id, r>> : r \in Recipients},
                            accepted |-> Recipients, rejected |-> {}]
                      ELSE NoResponse]
             /\ pass' = IF pass.kind = "http"
                          THEN [NoPass EXCEPT !.count = pass.count, !.outcome = "sent"]
                          ELSE [pass EXCEPT !.pc = "await"]
        ELSE /\ pending' = pending
             /\ passLog' = [passLog EXCEPT
                  ![id].sent = TRUE,
                  ![id].failed = failed,
                  ![id].response = IF pass.kind = "http"
                                     THEN [NoResponse EXCEPT !.status = 500]
                                     ELSE NoResponse]
             /\ pass' = [NoPass EXCEPT !.count = pass.count, !.outcome = "send-failed"]

\* recipients.map(sendWithMailerSend) and await Promise.all(sendPromises):
\* every send is started, each one is delivered or fails on its own; without
\* an API key every send throws before it reaches the channel
Send(apiKey, failing) ==
  /\ pass.pc = "send"
  /\ LET failed == IF apiKey THEN failing ELSE Recipients
     IN  /\ mailbox' = mailbox \cup
               {[pass |-> pass.id, to |-> r, trucks |-> BatchIds(pass.trucksWithMaintenance)] :
                  r \in Recipients \ failed}
         /\ AfterSend(failed)
  /\ UNCHANGED <<photoVars, trucks, maintenance, now, evalOut, clearCall>>

\* one db.collection('trucks').doc(truck.id).update({lastMaintenanceAlertSent})
\* settles; the daily pass awaits Promise.all(updatePromises) and logs a
\* rejection, the on-demand pass has answered already and only logs
SettleUpdate(w, writeOk) ==
  /\ w \in pending
  /\ pending' = pending \ {w}
  /\ trucks' = IF writeOk THEN [trucks EXCEPT ![w.truck].lastMaintenanceAlertSent = w.stamp]
                          ELSE trucks
  /\ passLog' = [passLog EXCEPT ![w.pass].written = IF writeOk THEN @ \cup {w.truck} ELSE @]
  /\ LET awaited == pass.pc = "await" /\ pass.id = w.pass
         last == \A x \in pending' : x.pass # w.pass
     IN  pass' = IF awaited /\ ~writeOk
                   THEN [NoPass EXCEPT !.count = pass.count, !.outcome = "update-failed"]
                 ELSE IF awaited /\ last
                   THEN [NoPass EXCEPT !.count = pass.count, !.outcome = "sent"]
                 ELSE pass
  /\ UNCHANGED <<photoVars, maintenance, now, evalOut, clearCall, mailbox>>

NextPass ==
  \/ Tick(PassStep)
  \/ \E kind \in {"daily", "http"}, testMode \in BOOLEAN, readOk \in BOOLEAN :
       StartPass(kind, testMode, readOk)
  \/ \E apiKey \in BOOLEAN, failing \in FailSets : Send(apiKey, failing)
  \/ \E w \in pending, writeOk \in BOOLEAN : SettleUpdate(w, writeOk)

SpecPass == InitPass /\ [][NextPass]_vars

(***************************************************************************)
(* A week of passes over a truck whose odometer is updated in between;     *)
(* the passes are not test passes, the store is read and the API key set   *)
(***************************************************************************)
\* oil is overdue from the start; brakes become due soon at 107500 miles
WeekTruck == [BaseTruck EXCEPT !.mileage = 105000, !.lastBrakeChangeMileage = 85000]
\* the odometer reading entered in the mileage update modal
NewMileages == {108000}

InitWeek ==
  /\ trucks = [id \in TruckIds |-> IF id = TruckOrder[1] THEN WeekTruck ELSE BaseTruck]
  /\ maintenance = <<>>
  /\ now = T0
  /\ evalOut = NoEval
  /\ clearCall = [c \in Clients |-> IdleCall]
  /\ pass = NoPass
  /\ pending = {}
  /\ mailbox = {}
  /\ passLog = <<>>
  /\ NoPhotos

\* the mileage update modal: updateTruck(truckId, {mileage: newMileage, ...})
\* for a truck whose reading changed; updateDoc sets the fields it is given
UpdateMileage(truckId, newMileage) ==
  /\ newMileage # trucks[truckId].mileage
  /\ trucks' = [trucks EXCEPT ![truckId].mileage = newMileage]
  /\ UNCHANGED <<photoVars, maintenance, now, evalOut, clearCall, pass, pending, mailbox, passLog>>

NextWeek ==
  \/ Tick(HoursPerDay)
  \/ \E newMileage \in NewMileages : UpdateMileage(TruckOrder[1], newMileage)
  \/ \E kind \in {"daily", "http"} : StartPass(kind, FALSE, TRUE)
  \/ \E failing \in FailSets : Send(TRUE, failing)
  \/ \E w \in pending, writeOk \in BOOLEAN : SettleUpdate(w, writeOk)

SpecWeek == InitWeek /\ [][NextWeek]_vars

(***************************************************************************)
(* Progress: clear calls and passes whose awaited calls may never settle.  *)
(* getDoc, updateDoc, addDoc, the fetch of sendWithMailerSend and the      *)
(* Firestore updates are awaited without a timer, so nothing obliges the   *)
(* steps that stand for their settling; only the clock is sure to advance. *)
(***************************************************************************)
\* time goes by, also while a call or a pass waits for an answer
Elapse ==
  /\ now + PassStep <= T0 + MaxDays * HoursPerDay
  /\ now' = now + PassStep
  /\ UNCHANGED <<photoVars, trucks, maintenance, evalOut, clearCall, pass, pending, mailbox, passLog>>

NextLive ==
  \/ Elapse
  \/ CallClear("c1", TruckOrder[1], "oilChange", "tires rotated, oil fine")
  \/ \E readOk \in BOOLEAN : GetDoc("c1", readOk)
  \/ \E writeOk \in BOOLEAN : UpdateDoc("c1", writeOk)
  \/ \E appendOk \in BOOLEAN : AddDoc("c1", appendOk)
  \/ \E kind \in {"daily", "http"} : StartPass(kind, FALSE, TRUE)
  \/ \E failing \in FailSets : Send(TRUE, failing)
  \/ \E w \in pending, writeOk \in BOOLEAN : SettleUpdate(w, writeOk)

SpecLive == InitWeek /\ [][NextLive]_vars /\ WF_vars(Elapse)

(***************************************************************************)
(* Photo cache: class PhotoCache (utils/photoCache.ts)                     *)
(* A photo is named by its cache key (getCacheKey of its URL); the cached  *)
(* URL itself plays no part in the size of the cache.                      *)
(***************************************************************************)
MAX_CACHE_SIZE == 50
\* distinct photos cached in one behaviour
MaxPhotos == 51
\* localStorage.setItem calls that throw (quota exceeded) in one behaviour
MaxQuota == 1

\* the keys of the Map, as a set
CacheKeys == {cache[i] : i \in 1..Len(cache)}

\* cleanupCache: the entries in front of the last MAX_CACHE_SIZE of the Map
toRemove(entries) ==
  IF Len(entries) <= MAX_CACHE_SIZE THEN <<>>
  ELSE SubSeq(entries, 1, Len(entries) - MAX_CACHE_SIZE)

\* cleanupCache over the Map and the storage: both lose the entries of toRemove
cleanupCache(entries, stored) ==
  LET gone == toRemove(entries)
  IN  [cache |-> SubSeq(entries, Len(gone) + 1, Len(entries)),
       localStorage |-> stored \ {gone[i] : i \in 1..Len(gone)}]

InitPhoto ==
  /\ trucks = [id \in TruckIds |-> BaseTruck]
  /\ maintenance = <<>>
  /\ now = T0
  /\ evalOut = NoEval
  /\ clearCall = [c \in Clients |-> IdleCall]
  /\ pass = NoPass
  /\ pending = {}
  /\ mailbox = {}
  /\ passLog = <<>>
  /\ NoPhotos

\* setCachedPhoto: Map.set keeps the place of a key it holds already and
\* puts a new key last; setItem may throw, which is only logged; cleanupCache
SetCachedPhoto(key, storeOk) ==
  /\ key <= MaxPhotos
  /\ ~storeOk => photoLog.quota < MaxQuota
  /\ LET entries == IF key \in CacheKeys THEN cache ELSE Append(cache, key)
         stored == IF storeOk THEN localStorage \cup {key} ELSE localStorage
         r == cleanupCache(entries, stored)
     IN  /\ cache' = r.cache
         /\ localStorage' = r.localStorage
  /\ photoLog' = [inserted |-> IF key > photoLog.inserted THEN key ELSE photoLog.inserted,
                  quota |-> IF storeOk THEN photoLog.quota ELSE photoLog.quota + 1]
  /\ UNCHANGED <<trucks, maintenance, now, evalOut, clearCall, pass, pending, mailbox, passLog>>

\* removeCachedPhoto: the key leaves the Map and the storage
RemoveCachedPhoto(key) ==
  /\ key \in CacheKeys \cup localStorage
  /\ cache' = SelectSeq(cache, LAMBDA k : k # key)
  /\ localStorage' = localStorage \ {key}
  /\ UNCHANGED <<photoLog, trucks, maintenance, now, evalOut, clearCall, pass, pending,
                 mailbox, passLog>>

\* clearCache: the Map is emptied, every entry with the prefix is removed
ClearCache ==
  /\ cache # <<>> \/ localStorage # {}
  /\ cache' = <<>>
  /\ localStorage' = {}
  /\ UNCHANGED <<photoLog, trucks, maintenance, now, evalOut, clearCall, pass, pending,
                 mailbox, passLog>>

\* the page is loaded again: `new PhotoCache()` starts with an empty Map,
\* localStorage is what the browser kept
Reload ==
  /\ cache # <<>>
  /\ cache' = <<>>
  /\ UNCHANGED <<localStorage, photoLog, trucks, maintenance, now, evalOut, clearCall, pass,
                 pending, mailbox, passLog>>

\* photos are cached one after the other; the first one may be removed and
\* cached again, with a storage that may be full by then
NextPhoto ==
  \/ SetCachedPhoto(photoLog.inserted + 1, TRUE)
  \/ \E storeOk \in BOOLEAN : SetCachedPhoto(1, storeOk)
  \/ RemoveCachedPhoto(1)
  \/ ClearCache
  \/ Reload

SpecPhoto == InitPhoto /\ [][NextPhoto]_vars

(***************************************************************************)
(* Everything that writes to a truck document, side by side: two sessions  *)
(* clearing alerts, the passes, the mileage modal, and an evaluation.      *)
(* The store accepts the reads and the writes of the clear calls.          *)
(***************************************************************************)
NextFrame ==
  \/ Evaluate(FALSE)
  \/ \E newMileage \in NewMileages : UpdateMileage(TruckOrder[1], newMileage)
  \/ \E c \in Clients, alertType \in ClearKinds :
       CallClear(c, TruckOrder[1], alertType, "tires rotated, oil fine")
  \/ \E c \in Clients : GetDoc(c, TRUE)
  \/ \E c \in Clients : UpdateDoc(c, TRUE)
  \/ \E c \in Clients : AddDoc(c, TRUE)
  \/ \E kind \in {"daily", "http"} : StartPass(kind, FALSE, TRUE)
  \/ \E failing \in FailSets : Send(TRUE, failing)
  \/ \E w \in pending, writeOk \in BOOLEAN : SettleUpdate(w, writeOk)

SpecFrame == InitWeek /\ [][NextFrame]_vars

(***************************************************************************)
(* Recording maintenance: addMaintenanceRecord                             *)
(***************************************************************************)
\* maintenance records added in one behaviour
MaxRecords == 2
\* the types of the maintenance form that the model uses
RecordTypes == {"oil-change", "brake-change", "tire-change", "inspection"}
\* odometer readings entered with a record: none, an old one, the current ones
RecordMileages == {0, 103000, 105000} \cup NewMileages

\* the record addMaintenanceRecord stores
ServiceRecord(truckId, type, mileage) ==
  [truckId |-> truckId, type |-> type, alertType |-> "none", date |-> now,
   mileage |-> mileage, notes |-> "", createdBy |-> "u1", call |-> <<"service", 0>>]

\* every mileage record is booked as an oil change
truckUpdatesMutant(truck, type, mileage) ==
  [truck EXCEPT !.lastOilChangeMileage = mileage]

\* the switch over record.type: the fields of the truck to update
truckUpdates(truck, type, mileage) ==
  CASE type = "oil-change" -> [truck EXCEPT !.lastOilChangeMileage = mileage]
    [] type = "brake-change" -> [truck EXCEPT !.lastBrakeChangeMileage = mileage]
    [] type = "tire-change" -> [truck EXCEPT !.lastTireChangeMileage = mileage]
    [] OTHER -> truck

InitService ==
  /\ trucks = [id \in TruckIds |-> IF id = TruckOrder[1] THEN OilOverdueTruck ELSE BaseTruck]
  /\ maintenance = <<>>
  /\ now = T0
  /\ evalOut = NoEval
  /\ clearCall = [c \in Clients |-> IdleCall]
  /\ pass = NoPass
  /\ pending = {}
  /\ mailbox = {}
  /\ passLog = <<>>
  /\ NoPhotos

\* addMaintenanceRecord: await addDoc, then, for a record with a truck and a
\* mileage, await updateDoc(truckRef, truckUpdates) when the type has fields
\* to update; a rejection of either is thrown to the caller
AddMaintenanceRecord(truckId, type, mileage, appendOk, writeOk) ==
  /\ Len(maintenance) < MaxRecords
  /\ appendOk
  /\ maintenance' = Append(maintenance, ServiceRecord(truckId, type, mileage))
  /\ trucks' = IF mileage # 0 /\ writeOk
                 THEN [trucks EXCEPT ![truckId] = truckUpdates(@, type, mileage)]
                 ELSE trucks
  /\ UNCHANGED <<photoVars, now, evalOut, clearCall, pass, pending, mailbox, passLog>>

\* one session recording maintenance, updating the odometer and clearing alerts
NextService ==
  \/ \E type \in RecordTypes, mileage \in RecordMileages, appendOk \in BOOLEAN,
        writeOk \in BOOLEAN :
       AddMaintenanceRecord(TruckOrder[1], type, mileage, appendOk, writeOk)
  \/ \E newMileage \in NewMileages : UpdateMileage(TruckOrder[1], newMileage)
  \/ \E alertType \in ClearKinds :
       CallClear("c1", TruckOrder[1], alertType, "tires rotated, oil fine")
  \/ \E readOk \in BOOLEAN : GetDoc("c1", readOk)
  \/ \E writeOk \in BOOLEAN : UpdateDoc("c1", writeOk)
  \/ \E appendOk \in BOOLEAN : AddDoc("c1", appendOk)

SpecService == InitService /\ [][NextService]_vars

(***************************************************************************)
(* Vocabulary of the properties of the evaluator                           *)
(***************************************************************************)
\* the truck is in the batch the last evaluation returned
Included(id) ==
  \E i \in 1..Len(evalOut.trucksWithMaintenance) : evalOut.trucksWithMaintenance[i].id = id

\* the alerts the last evaluation reported for the truck
ReportedAlerts(id) ==
  IF Included(id)
    THEN evalOut.trucksWithMaintenance[
           CHOOSE i \in 1..Len(evalOut.trucksWithMaintenance) :
             evalOut.trucksWithMaintenance[i].id = id].alerts
    ELSE <<>>

\* the alerts of one kind among those reported for the truck
Reported(id, k) == SelectSeq(ReportedAlerts(id), LAMBDA a : a.type = k)

\* the evaluation ran to its end
Evaluated == evalOut.done /\ ~evalOut.threw

\* the batch gate let the truck through, under either reading of its boundary
PastBatchGate(id) ==
  \/ evalOut.testMode
  \/ trucks[id].lastMaintenanceAlertSent = Absent
  \/ now - trucks[id].lastMaintenanceAlertSent > SevenDays

\* the kind was never cleared, or more than seven days ago
NotGated(id, k) ==
  \/ trucks[id].alertsCleared[k] = Absent
  \/ now - trucks[id].alertsCleared[k] > SevenDays

LastService(id, k) ==
  CASE k = "oilChange" -> trucks[id].lastOilChangeMileage
    [] k = "brakeChange" -> trucks[id].lastBrakeChangeMileage
    [] k = "tireChange" -> trucks[id].lastTireChangeMileage

IntervalOf(k) ==
  CASE k = "oilChange" -> 5000 [] k = "brakeChange" -> 25000 [] k = "tireChange" -> 40000

MarginOf(k) ==
  CASE k = "oilChange" -> 500 [] k = "brakeChange" -> 2500 [] k = "tireChange" -> 4000

ExpiryOf(id, k) ==
  IF k = "inspection" THEN trucks[id].inspectionStickerExpiry
                      ELSE trucks[id].oemsInspectionExpiry

CeilDays(diff) ==
  CHOOSE d \in -2..101 : (d - 1) * 24 < diff /\ diff <= d * 24

UngatedAlerts(id, k) ==
  SelectSeq(maintenanceAlerts([trucks[id] EXCEPT !.alertsCleared = NeverCleared], now),
            LAMBDA a : a.type = k)

\* C7 as stated: a kind cleared seven days ago or less, exactly seven days
\* included, yields no alert whatever the mileage or the expiry date
C7_Original ==
  Evaluated =>
    \A id \in TruckIds, k \in Kinds :
      (/\ PastBatchGate(id)
       /\ trucks[id].alertsCleared[k] # Absent
       /\ now - trucks[id].alertsCleared[k] <= SevenDays) => Reported(id, k) = <<>>

\* C7 amended: a kind cleared strictly less than seven days ago yields no alert
\* whatever the mileage or the expiry date; a kind never cleared, or cleared
\* seven days ago or more (exactly seven days included), gets the alert its
\* rule gives, whatever the clearances of the other kinds
C7_ClearanceGate ==
  Evaluated =>
    \A id \in TruckIds, k \in Kinds :
      PastBatchGate(id) =>
        LET c == trucks[id].alertsCleared[k]
        IN  /\ (c # Absent /\ now - c < SevenDays) => Reported(id, k) = <<>>
            /\ (c = Absent \/ now - c >= SevenDays) => Reported(id, k) = UngatedAlerts(id, k)

\* C7 witness: oil overdue and cleared exactly seven days ago is reported,
\* while the brake clearance of the same truck is one day old
C7_Witness ==
  /\ Evaluated
  /\ trucks["t1"].mileage = 105000
  /\ trucks["t1"].lastOilChangeMileage = 100000
  /\ trucks["t1"].alertsCleared["oilChange"] = now - SevenDays
  /\ trucks["t1"].alertsCleared["brakeChange"] = now - HoursPerDay
  /\ Len(Reported("t1", "oilChange")) = 1
  /\ Reported("t1", "brakeChange") = <<>>

\* the document has at least one alert after the clearance gate
HasAlert(id) == Len(maintenanceAlerts(trucks[id], now)) > 0

C11_NeverThrows ==
  evalOut.done =>
    /\ ~evalOut.threw
    /\ \A id \in TruckIds, k \in MileageKinds :
         (LastService(id, k) = Absent /\ NotGated(id, k) /\ PastBatchGate(id)) =>
           LET odometer == trucks[id].mileage
               r == Reported(id, k)
           IN  /\ (odometer >= IntervalOf(k)) <=> (r # <<>> /\ r[1].priority = "overdue")
               /\ (IntervalOf(k) - MarginOf(k) <= odometer /\ odometer < IntervalOf(k)) <=>
                    (r # <<>> /\ r[1].priority = "due-soon")
    /\ \A id \in TruckIds, k \in DateKinds :
         ExpiryOf(id, k) = Absent => Reported(id, k) = <<>>

\* the truck is out of service and no rule gives it an alert after the clearance gate
IdleOutOfService(id) == trucks[id].status = "out-of-service" /\ ~HasAlert(id)

\* C12: an out-of-service truck without alerts is in the batch, with an empty
\* alert list and the banner, whenever the batch gate lets it through; the
\* clearances of the truck play no part, and a truck left out was batched
\* within the last seven days in a pass that is not a test
C12_OutOfServiceInclusion ==
  Evaluated =>
    \A id \in TruckIds :
      IdleOutOfService(id) =>
        /\ PastBatchGate(id) => Included(id)
        /\ Included(id) => (ReportedAlerts(id) = <<>> /\ outOfServiceBanner(trucks[id]))
        /\ ~Included(id) =>
             /\ ~evalOut.testMode
             /\ trucks[id].lastMaintenanceAlertSent # Absent
             /\ now - trucks[id].lastMaintenanceAlertSent <= SevenDays
        /\ \A cleared \in {NeverCleared, [k \in Kinds |-> now - HoursPerDay]} :
             Included(id) <=>
               qualifies([trucks[id] EXCEPT !.alertsCleared = cleared], evalOut.testMode, now)

\* C12 witness: an out-of-service truck whose only alert, oil, was cleared a
\* day ago is in the batch with an empty alert list
C12_Witness ==
  /\ Evaluated /\ ~evalOut.testMode
  /\ trucks["t1"].status = "out-of-service"
  /\ trucks["t1"].mileage = 105000
  /\ trucks["t1"].alertsCleared["oilChange"] = T0 - HoursPerDay
  /\ Included("t1")
  /\ ReportedAlerts("t1") = <<>>

\* the place of a kind in the order oil, WV inspection, OEMS inspection, brakes, tires
KindRank(k) ==
  CASE k = "oilChange" -> 1 [] k = "inspection" -> 2 [] k = "oemsInspection" -> 3
    [] k = "brakeChange" -> 4 [] k = "tireChange" -> 5

\* the kinds whose rule fires for the truck, whatever their place in the list
FiringKinds(id) == {k \in Kinds : Len(UngatedAlerts(id, k)) > 0 /\ ~isAlertClearedRecently(trucks[id], k, now - SevenDays)}

\* C20: whatever kinds fire for a truck, its alerts are listed in the order
\* oil, WV inspection, OEMS inspection, brakes, tires, one alert at most for
\* a kind and one for every kind that fires
C20_FixedKindOrder ==
  Evaluated =>
    \A id \in TruckIds :
      Included(id) =>
        LET al == ReportedAlerts(id)
        IN  /\ \A i \in 1..Len(al), j \in 1..Len(al) :
                 i < j => KindRank(al[i].type) < KindRank(al[j].type)
            /\ {al[i].type : i \in 1..Len(al)} = FiringKinds(id)

\* C20 witness: all five kinds fire for a truck and are listed in the order
C20_Witness ==
  /\ Evaluated
  /\ Included("t1")
  /\ [i \in 1..Len(ReportedAlerts("t1")) |-> ReportedAlerts("t1")[i].type]
       = <<"oilChange", "inspection", "oemsInspection", "brakeChange", "tireChange">>

\* the kinds and severities of a list of alerts
AlertSet(al) == {<<al[i].type, al[i].priority>> : i \in 1..Len(al)}

\* the alert set an evaluation of another collection returns for the truck:
\* the same document with another lastMaintenanceAlertSent, next to another
\* second truck; none when that evaluation throws or leaves the truck out
ElsewhereAlerts(id, stamp, other, testMode) ==
  LET db == [x \in TruckIds |->
               IF x = id THEN [trucks[id] EXCEPT !.lastMaintenanceAlertSent = stamp]
                         ELSE other]
      r == checkMaintenanceDue(db, testMode, now)
      at == {i \in 1..Len(r.trucksWithMaintenance) : r.trucksWithMaintenance[i].id = id}
  IN  IF r.threw THEN {} ELSE {AlertSet(r.trucksWithMaintenance[i].alerts) : i \in at}

OnScreenAlerts(id) == AlertSet(getMaintenanceAlerts(truckWithDefaults(trucks[id], now), now))

\* the server evaluation looked at the truck: test mode, or not batched in the last seven days
LookedAt(id) ==
  \/ evalOut.testMode
  \/ trucks[id].lastMaintenanceAlertSent = Absent
  \/ now - trucks[id].lastMaintenanceAlertSent >= SevenDays

\* C27: for every truck the server evaluation looks at, it returns, and the
\* kinds and severities it reports are those the card of the truck shows,
\* also when an expiry date or a last-service odometer is missing from the
\* stored document
C27_EvaluatorsAgree ==
  evalOut.done =>
    \A id \in TruckIds :
      LookedAt(id) =>
        /\ ~evalOut.threw
        /\ AlertSet(ReportedAlerts(id)) = OnScreenAlerts(id)

(***************************************************************************)
(* Properties of the clearance workflow                                    *)
(***************************************************************************)
\* the records of the maintenance collection one call appended
RecordsOf(c) ==
  {i \in 1..Len(maintenance) : maintenance[i].call = <<c, clearCall[c].n>>}

\* the call gave up after its last accountability attempt failed
Unaccountable(c) ==
  /\ clearCall[c].pc = "threw"
  /\ clearCall[c].error = "Failed to create maintenance record"

\* C1: when the accountability append fails on every attempt, the stored
\* alertsCleared entry of the (truck, kind) equals its value before the call
C1_ClearanceAtomicity ==
  \A c \in Clients :
    Unaccountable(c) =>
      trucks[clearCall[c].truckId].alertsCleared[clearCall[c].alertType] = clearCall[c].before

\* C2: a call that returns normally has appended exactly one record, which
\* carries the truck id, the kind, the odometer, the notes and the author
C2_SuccessIsAccountable ==
  \A c \in Clients :
    clearCall[c].pc = "returned" =>
      /\ Cardinality(RecordsOf(c)) = 1
      /\ \A i \in RecordsOf(c) :
           /\ maintenance[i].truckId = clearCall[c].truckId
           /\ maintenance[i].alertType = clearCall[c].alertType
           /\ maintenance[i].mileage = trucks[clearCall[c].truckId].mileage
           /\ maintenance[i].notes = clearCall[c].notes
           /\ clearCall[c].userId # NoUser => maintenance[i].createdBy = clearCall[c].userId

\* C2 witness: a call returned after two failed appends and one that succeeded
C2_Witness ==
  /\ clearCall["c1"].pc = "returned"
  /\ clearCall["c1"].retryCount = 2
  /\ Cardinality(RecordsOf("c1")) = 1

\* the server evaluation reports an oil alert for the truck now
OilReportedNow(id) ==
  LET r == checkMaintenanceDue(trucks, FALSE, now)
  IN  /\ ~r.threw
      /\ \E i \in 1..Len(r.trucksWithMaintenance) :
           /\ r.trucksWithMaintenance[i].id = id
           /\ \E j \in 1..Len(r.trucksWithMaintenance[i].alerts) :
                r.trucksWithMaintenance[i].alerts[j].type = "oilChange"

\* C8: a clear of oilChange that returned has stored its time T; while the
\* entry is T and the oil mileage is overdue, evaluation up to T + 6 days
\* reports no oil alert and evaluation from T + 8 days on reports it again
C8_ClearedThenActive ==
  \A id \in TruckIds :
    LET T == trucks[id].alertsCleared["oilChange"]
        overdue == trucks[id].mileage >= trucks[id].lastOilChangeMileage + 5000
    IN  /\ \A c \in Clients :
             (/\ clearCall[c].pc = "returned"
              /\ clearCall[c].truckId = id
              /\ clearCall[c].alertType = "oilChange") =>
               T # Absent
        /\ (T # Absent /\ overdue /\ now <= T + 6 * 24) => ~OilReportedNow(id)
        /\ (T # Absent /\ overdue /\ now >= T + 8 * 24) => OilReportedNow(id)

\* C8 witness: eight days after the only clear, the entry is still stored
\* and the oil alert is back
C8_Witness ==
  /\ clearCall["c1"].pc = "returned"
  /\ clearCall["c1"].alertType = "oilChange"
  /\ Len(maintenance) = 1
  /\ trucks["t1"].alertsCleared["oilChange"] = maintenance[1].date
  /\ now = maintenance[1].date + 8 * 24
  /\ OilReportedNow("t1")

\* the call was made with a justification that is empty once trimmed
EmptyJustification(c) == clearCall[c].pc # "idle" /\ clearCall[c].notes = ""

\* C14: clearMaintenanceAlert itself turns down an empty justification: the
\* call does not return normally, the alertsCleared entry keeps the value it
\* had before the call and no accountability record is appended
C14_RejectsEmptyJustification ==
  \A c \in Clients :
    EmptyJustification(c) =>
      /\ clearCall[c].pc # "returned"
      /\ RecordsOf(c) = {}
      /\ clearCall[c].truckId \in TruckIds =>
           trucks[clearCall[c].truckId].alertsCleared[clearCall[c].alertType] = clearCall[c].before

\* the records of earlier calls for the same truck and kind as the call of c,
\* dated less than seven days before the record of that call
EarlierClears(c) ==
  {i \in 1..Len(maintenance) :
     /\ maintenance[i].call # <<c, clearCall[c].n>>
     /\ maintenance[i].truckId = clearCall[c].truckId
     /\ maintenance[i].alertType = clearCall[c].alertType
     /\ \A j \in RecordsOf(c) :
          i < j /\ maintenance[j].date - maintenance[i].date < SevenDays}

\* C15: a clear of a (truck, kind) cleared less than seven days before is
\* not turned down for that; when it returns, alertsCleared holds the time
\* of the second call, the kind stays gated until seven days after that
\* time, and the log holds the records of both calls
C15_ReclearRestartsWindow ==
  \A c \in Clients :
    /\ clearCall[c].pc = "threw" =>
         /\ clearCall[c].error \in {"getDoc failed", "Truck not found", "updateDoc failed",
                                    "Failed to create maintenance record"}
         /\ clearCall[c].error = "Truck not found" => clearCall[c].truckId \notin TruckIds
    /\ (clearCall[c].pc = "returned" /\ EarlierClears(c) # {}) =>
         \A j \in RecordsOf(c) :
           LET doc == trucks[clearCall[c].truckId]
               k == clearCall[c].alertType
           IN  /\ doc.alertsCleared[k] = maintenance[j].date
               /\ now - maintenance[j].date < SevenDays =>
                    \A a \in 1..Len(maintenanceAlerts(doc, now)) :
                      maintenanceAlerts(doc, now)[a].type # k
               /\ Cardinality(RecordsOf(c) \cup EarlierClears(c)) >= 2

\* C15 witness: oil was cleared on day 0 and again on day 3; on day 8 the log
\* holds both records and the oil alert is still gated
C15_Witness ==
  /\ clearCall["c1"].pc = "returned"
  /\ clearCall["c1"].alertType = "oilChange"
  /\ Len(maintenance) = 2
  /\ maintenance[1].alertType = "oilChange" /\ maintenance[1].date = T0
  /\ maintenance[2].alertType = "oilChange" /\ maintenance[2].date = T0 + 3 * HoursPerDay
  /\ trucks["t1"].alertsCleared["oilChange"] = T0 + 3 * HoursPerDay
  /\ now = T0 + 8 * HoursPerDay
  /\ ~OilReportedNow("t1")

\* C16: when two calls on the same truck with different kinds have both
\* returned, however their reads, writes and appends interleaved,
\* alertsCleared holds a timestamp for both kinds
C16_ConcurrentClearsKeepBoth ==
  \A c \in Clients, d \in Clients :
    (/\ clearCall[c].pc = "returned" /\ clearCall[d].pc = "returned"
     /\ clearCall[c].truckId = clearCall[d].truckId
     /\ clearCall[c].alertType # clearCall[d].alertType) =>
      /\ trucks[clearCall[c].truckId].alertsCleared[clearCall[c].alertType] # Absent
      /\ trucks[clearCall[c].truckId].alertsCleared[clearCall[d].alertType] # Absent

\* C24: a call is at its accountability append, or has appended a record,
\* only with its clearance write stored; a call for a truck that does not
\* exist, or whose read or clearance write failed, has thrown without
\* appending a record
C24_ClearSequencing ==
  \A c \in Clients :
    LET call == clearCall[c]
    IN  /\ call.pc = "addDoc" =>
             /\ call.truckId \in TruckIds
             /\ trucks[call.truckId].alertsCleared[call.alertType] = now
        /\ \A j \in RecordsOf(c) :
             /\ call.truckId \in TruckIds
             /\ trucks[call.truckId].alertsCleared[call.alertType] = maintenance[j].date
        /\ (call.pc # "idle" /\ call.truckId \notin TruckIds) =>
             (call.pc \in {"getDoc", "threw"} /\ RecordsOf(c) = {})
        /\ (call.pc = "threw" /\ call.error \in {"getDoc failed", "Truck not found",
                                                 "updateDoc failed"}) =>
             RecordsOf(c) = {}

\* C24 witness: the clearance write of a call was rejected a day after an
\* earlier clear; the call threw and the log holds the earlier record only
C24_Witness ==
  /\ clearCall["c1"].pc = "threw"
  /\ clearCall["c1"].error = "updateDoc failed"
  /\ clearCall["c1"].n = 2
  /\ Len(maintenance) = 1
  /\ now = maintenance[1].date + HoursPerDay
  /\ RecordsOf("c1") = {}

\* C25: a call makes three accountability attempts at most: it is at an
\* attempt after two failures at most, an attempt that succeeds ends the
\* call with exactly one record, and the third failure ends it with an error
\* and no record
C25_BoundedRetry ==
  \A c \in Clients :
    LET call == clearCall[c]
    IN  /\ call.retryCount <= 3
        /\ call.pc = "addDoc" => (call.retryCount <= 2 /\ RecordsOf(c) = {})
        /\ Cardinality(RecordsOf(c)) <= 1
        /\ RecordsOf(c) # {} => (call.pc = "returned" /\ call.retryCount <= 2)
        /\ call.pc = "returned" => Cardinality(RecordsOf(c)) = 1
        /\ call.retryCount = 3 => (Unaccountable(c) /\ RecordsOf(c) = {})

\* C25 witness: the third attempt of a call failed and the call threw
C25_Witness ==
  /\ Unaccountable("c1")
  /\ clearCall["c1"].retryCount = 3
  /\ maintenance = <<>>

(***************************************************************************)
(* Properties of the passes                                                *)
(***************************************************************************)
\* the digest of entry i reached every recipient
Dispatched(i) == passLog[i].sent /\ passLog[i].failed = {}

\* the recipients the digest of entry i was delivered to
DeliveredTo(i) == {m.to : m \in {x \in mailbox : x.pass = i}}

\* the alerts of the entry of a batch for one truck
AlertsIn(list, id) ==
  list[CHOOSE i \in 1..Len(list) : list[i].id = id].alerts

\* a step in which a pass evaluates the fleet and finds a batch to send
FindsBatch == pass.pc = "idle" /\ pass'.pc = "send"

\* C13: an on-demand pass with the test flag puts every truck that has an
\* alert or is out of service in its batch, whenever the truck was batched
\* last; in test mode as in any pass, a kind cleared less than seven days ago
\* gives no alert; only on-demand passes run in test mode, and the batch of a
\* daily pass holds no truck batched less than seven days ago
C13_TestModeBypass ==
  [][FindsBatch =>
       LET list == pass'.trucksWithMaintenance
       IN  /\ pass'.testMode =>
                /\ pass'.kind = "http"
                /\ \A id \in TruckIds :
                     (HasAlert(id) \/ trucks[id].status = "out-of-service") =>
                       id \in BatchIds(list)
           /\ \A id \in BatchIds(list), k \in Kinds :
                (/\ trucks[id].alertsCleared[k] # Absent
                 /\ now - trucks[id].alertsCleared[k] < SevenDays) =>
                  \A j \in 1..Len(AlertsIn(list, id)) : AlertsIn(list, id)[j].type # k
           /\ pass'.kind = "daily" =>
                /\ ~pass'.testMode
                /\ \A id \in BatchIds(list) :
                     \/ trucks[id].lastMaintenanceAlertSent = Absent
                     \/ now - trucks[id].lastMaintenanceAlertSent >= SevenDays]_vars

\* C13 witness: a test pass is about to send a batch that holds the truck
\* batched three days ago, and reports the sticker but not the oil of the
\* truck whose oil alert was cleared a day ago
C13_Witness ==
  /\ pass.pc = "send" /\ pass.kind = "http" /\ pass.testMode
  /\ trucks["t2"].lastMaintenanceAlertSent = now - 3 * HoursPerDay
  /\ "t2" \in BatchIds(pass.trucksWithMaintenance)
  /\ trucks["t1"].alertsCleared["oilChange"] = now - HoursPerDay
  /\ trucks["t1"].mileage >= trucks["t1"].lastOilChangeMileage + OilInterval
  /\ "t1" \in BatchIds(pass.trucksWithMaintenance)
  /\ Len(AlertsIn(pass.trucksWithMaintenance, "t1")) = 1
  /\ AlertsIn(pass.trucksWithMaintenance, "t1")[1].type = "inspection"

\* C3: a pass in which a recipient send fails, for a rejection, a transport
\* failure or a missing API key, issues no lastMaintenanceAlertSent write
\* and changes that field of no truck
C3_FailureKeepsSuppression ==
  \A i \in 1..Len(passLog) :
    passLog[i].failed # {} =>
      /\ passLog[i].written = {}
      /\ \A w \in pending : w.pass # i

\* C3 witness: the third recipient was rejected, the other four got the
\* digest, the pass is over and the truck of the batch was never stamped
C3_Witness ==
  /\ Len(passLog) = 1
  /\ passLog[1].failed = {recipients[3]}
  /\ "t1" \in passLog[1].batch
  /\ Cardinality(DeliveredTo(1)) = 4
  /\ pass.pc = "idle"
  /\ trucks["t1"].lastMaintenanceAlertSent = Absent

\* C4: when exactly one of the five sends fails, the other four recipients
\* get the digest, the result of the on-demand pass lists the failed
\* recipient as rejected and the others as accepted with their message
\* ids, and no truck of the batch is stamped
C4_PartialFailureIsolation ==
  \A i \in 1..Len(passLog) :
    (passLog[i].kind = "http" /\ Cardinality(passLog[i].failed) = 1) =>
      /\ DeliveredTo(i) = Recipients \ passLog[i].failed
      /\ passLog[i].response.rejected = passLog[i].failed
      /\ passLog[i].response.accepted = Recipients \ passLog[i].failed
      /\ passLog[i].response.messageIds = {<<i, r>> : r \in Recipients \ passLog[i].failed}
      /\ passLog[i].written = {}

\* C5: of two non-test passes less than seven days apart at most one
\* dispatches a digest that includes a given truck; a non-test pass eight
\* days or more after the last dispatch that included a truck includes it
\* again while its alerts are unresolved
C5_BatchGateIdempotence ==
  /\ \A i \in 1..Len(passLog), j \in 1..Len(passLog) :
       (/\ i < j
        /\ ~passLog[i].testMode /\ ~passLog[j].testMode
        /\ Dispatched(i) /\ Dispatched(j)
        /\ passLog[j].t - passLog[i].t < SevenDays) =>
         passLog[i].batch \cap passLog[j].batch = {}
  /\ \A j \in 1..Len(passLog), id \in TruckIds :
       (/\ ~passLog[j].testMode
        /\ Len(maintenanceAlerts(trucks[id], passLog[j].t)) > 0
        /\ \E i \in 1..(j - 1) : Dispatched(i) /\ id \in passLog[i].batch
        /\ \A i \in 1..(j - 1) :
             (Dispatched(i) /\ id \in passLog[i].batch) =>
               passLog[j].t - passLog[i].t >= 8 * 24) =>
         id \in passLog[j].batch

\* the pass of entry i is over: it is not running and none of its writes is pending
PassOver(i) ==
  /\ ~(pass.pc # "idle" /\ pass.id = i)
  /\ \A w \in pending : w.pass # i

\* C17: when a pass is over, lastMaintenanceAlertSent was written for every
\* truck of its digest or for none, also when a write of one truck fails
\* after the emails were sent
C17_NoPartialCommit ==
  \A i \in 1..Len(passLog) :
    PassOver(i) => (passLog[i].written = {} \/ passLog[i].written = passLog[i].batch)


\* no truck qualifies for the batch of a pass run now with this test flag
NoneQualifies(testMode) ==
  \A id \in TruckIds :
    \/ ~HasAlert(id) /\ trucks[id].status # "out-of-service"
    \/ /\ ~testMode
       /\ trucks[id].lastMaintenanceAlertSent # Absent
       /\ now - trucks[id].lastMaintenanceAlertSent < SevenDays

\* C18: a pass, daily or on demand, test or not, in which no truck qualifies
\* ends at once: it sends nothing, issues no write and leaves every truck and
\* the maintenance log as they are; no digest without a truck is ever sent
C18_EmptyBatchNoOp ==
  /\ [](\A m \in mailbox : m.trucks # {})
  /\ [][\A kind \in {"daily", "http"}, testMode \in BOOLEAN, readOk \in BOOLEAN :
          (StartPass(kind, testMode, readOk) /\ NoneQualifies(testMode)) =>
            /\ pass'.pc = "idle"
            /\ UNCHANGED <<trucks, maintenance, pending, mailbox, passLog>>]_vars

\* C18 witness: four days after a digest about the first truck was sent and
\* stamped, a second pass found nothing to send and changed nothing
C18_Witness ==
  /\ pass.outcome = "no-maintenance" /\ pass.count = 2
  /\ now = T0 + PassStep
  /\ trucks["t1"].lastMaintenanceAlertSent = T0
  /\ HasAlert("t1")
  /\ NoneQualifies(FALSE)
  /\ Cardinality(mailbox) = Cardinality(Recipients)
  /\ pending = {}


\* the brake rule gives the truck an alert now: due soon or overdue, not cleared
BrakeDue(id) ==
  /\ trucks[id].mileage >= trucks[id].lastBrakeChangeMileage + BrakeInterval - BrakeMargin
  /\ NotGated(id, "brakeChange")

\* the dispatches made so far whose digest held the truck
DispatchesOf(id) == {i \in 1..Len(passLog) : Dispatched(i) /\ id \in passLog[i].batch}

\* C19: a truck that was in a dispatched digest is in no non-test dispatch
\* less than seven days later, whatever new alert it has developed since;
\* the first non-test pass run seven days or more after the last dispatch
\* that held it puts it in its batch with the brake alert it developed
C19_VehicleLevelSuppression ==
  /\ [](\A id \in TruckIds, i \in 1..Len(passLog), j \in 1..Len(passLog) :
          (/\ i < j
           /\ Dispatched(i) /\ id \in passLog[i].batch
           /\ ~passLog[j].testMode /\ Dispatched(j)
           /\ passLog[j].t - passLog[i].t < SevenDays) =>
            id \notin passLog[j].batch)
  /\ [][\A id \in TruckIds, kind \in {"daily", "http"} :
          (/\ StartPass(kind, FALSE, TRUE)
           /\ DispatchesOf(id) # {}
           /\ \A i \in DispatchesOf(id) : now - passLog[i].t >= SevenDays
           /\ BrakeDue(id)) =>
            /\ pass'.pc = "send"
            /\ id \in BatchIds(pass'.trucksWithMaintenance)
            /\ \E a \in 1..Len(AlertsIn(pass'.trucksWithMaintenance, id)) :
                 AlertsIn(pass'.trucksWithMaintenance, id)[a].type = "brakeChange"]_vars


\* C22: every clear call that was made ends, returned or thrown, and every
\* pass that was triggered ends with all its writes settled, also when a
\* store call or a channel send never answers
C22_NoIndefiniteBlocking ==
  /\ (InFlight("c1") ~> ~InFlight("c1"))
  /\ (pass.pc # "idle" ~> pass.pc = "idle")
  /\ (pending # {} ~> pending = {})


\* C23: the Map of the photo cache and the photo entries of localStorage
\* never hold more than 50 keys each, whatever photos are cached and
\* removed, the cache cleared and the page loaded again; the keys an
\* eviction takes away are the oldest of the Map
C23_PhotoCacheBounded ==
  /\ [](Len(cache) <= 50 /\ Cardinality(localStorage) <= 50)
  /\ [][\A key \in CacheKeys :
          (key \notin CacheKeys' /\ Len(cache') = 50) =>
            \A kept \in CacheKeys' \cap CacheKeys :
              \E i \in 1..Len(cache), j \in 1..Len(cache) :
                cache[i] = key /\ cache[j] = kept /\ i < j]_vars


\* the step belongs to a clear call
ClearStep == clearCall' # clearCall
\* the step belongs to a pass
PassStepTaken == pass' # pass \/ pending' # pending \/ passLog' # passLog

\* C26: lastMaintenanceAlertSent of a truck changes only when a write of a
\* dispatched pass that held the truck lands; an alertsCleared entry changes
\* only in the write of a clear call for that truck and kind; a clear call
\* changes no lastMaintenanceAlertSent, odometer or last-service odometer;
\* a pass changes no alertsCleared entry; an evaluation writes nothing
C26_NarrowWriteFrame ==
  [][/\ \A id \in TruckIds :
          trucks'[id].lastMaintenanceAlertSent # trucks[id].lastMaintenanceAlertSent =>
            \E w \in pending \ pending' :
              /\ w.truck = id
              /\ id \in passLog[w.pass].batch
              /\ Dispatched(w.pass)
     /\ \A id \in TruckIds, k \in Kinds :
          trucks'[id].alertsCleared[k] # trucks[id].alertsCleared[k] =>
            \E c \in Clients :
              /\ clearCall[c].pc = "updateDoc" /\ clearCall'[c].pc = "addDoc"
              /\ clearCall[c].truckId = id
              /\ clearCall[c].alertType = k
     /\ ClearStep =>
          \A id \in TruckIds :
            /\ trucks'[id].lastMaintenanceAlertSent = trucks[id].lastMaintenanceAlertSent
            /\ trucks'[id].mileage = trucks[id].mileage
            /\ trucks'[id].lastOilChangeMileage = trucks[id].lastOilChangeMileage
            /\ trucks'[id].lastBrakeChangeMileage = trucks[id].lastBrakeChangeMileage
            /\ trucks'[id].lastTireChangeMileage = trucks[id].lastTireChangeMileage
     /\ PassStepTaken =>
          \A id \in TruckIds : trucks'[id].alertsCleared = trucks[id].alertsCleared
     /\ (evalOut' # evalOut \/ (pass.pc = "idle" /\ pass' # pass)) =>
          (trucks' = trucks /\ maintenance' = maintenance)]_vars


\* C28: a test pass that reached every recipient has, once it is over,
\* stored lastMaintenanceAlertSent for every truck of its digest, and no
\* pass without the test flag started less than seven days after it has
\* any of those trucks in its batch
C28_TestDispatchCommits ==
  \A i \in 1..Len(passLog) :
    (passLog[i].testMode /\ Dispatched(i)) =>
      /\ PassOver(i) => passLog[i].written = passLog[i].batch
      /\ \A j \in 1..Len(passLog) :
           (/\ i < j
            /\ ~passLog[j].testMode
            /\ passLog[j].t - passLog[i].t < SevenDays) =>
             passLog[i].batch \cap passLog[j].batch = {}

\* C29: once sendMaintenanceAlert has answered ok:true for a batch, no pass
\* without the test flag that starts after the answer and less than seven
\* days after it has a truck of that batch in its own batch
C29_SuccessIsCommitted ==
  \A i \in 1..Len(passLog), j \in 1..Len(passLog) :
    (/\ i < j
     /\ passLog[i].kind = "http" /\ passLog[i].response.ok
     /\ ~passLog[j].testMode
     /\ passLog[j].t - passLog[i].t < SevenDays) =>
      passLog[i].batch \cap passLog[j].batch = {}


(***************************************************************************)
(* Recording maintenance                                                   *)
(***************************************************************************)
\* the alert kind a record type answers
KindOfType(type) ==
  CASE type = "oil-change" -> "oilChange"
    [] type = "brake-change" -> "brakeChange"
    [] type = "tire-change" -> "tireChange"

\* the evaluations of the truck, on the server and on screen, report the kind
Reports(truck, t, k) ==
  \/ \E a \in AlertSet(maintenanceAlerts(truck, t)) : a[1] = k
  \/ \E a \in AlertSet(getMaintenanceAlerts(truckWithDefaults(truck, t), t)) : a[1] = k

\* C30: after addMaintenanceRecord succeeds for an oil-change, brake-change
\* or tire-change record with mileage m > 0, the truck's last-service
\* odometer of exactly that kind is m and those of the other two kinds are
\* unchanged, so when m is the current odometer the next evaluation reports
\* no alert of that kind; a clear call changes no last-service odometer
C30_RecordResolvesAlert ==
  [][/\ \A type \in {"oil-change", "brake-change", "tire-change"},
           m \in RecordMileages \ {0} :
          AddMaintenanceRecord(TruckOrder[1], type, m, TRUE, TRUE) =>
            /\ LastService(TruckOrder[1], KindOfType(type))' = m
            /\ \A k \in MileageKinds \ {KindOfType(type)} :
                 LastService(TruckOrder[1], k)' = LastService(TruckOrder[1], k)
            /\ m = trucks[TruckOrder[1]].mileage =>
                 ~Reports(trucks[TruckOrder[1]], now, KindOfType(type))'
     /\ ClearStep =>
          \A id \in TruckIds, k \in MileageKinds :
            LastService(id, k)' = LastService(id, k)]_vars

\* C30 witness: the overdue oil change was recorded at the current odometer
\* and the evaluation no longer reports it
C30_Witness ==
  /\ \E i \in 1..Len(maintenance) :
       /\ maintenance[i].type = "oil-change"
       /\ maintenance[i].mileage = trucks[TruckOrder[1]].mileage
  /\ trucks[TruckOrder[1]].lastOilChangeMileage = trucks[TruckOrder[1]].mileage
  /\ trucks[TruckOrder[1]].lastBrakeChangeMileage = BaseTruck.lastBrakeChangeMileage
  /\ ~Reports(trucks[TruckOrder[1]], now, "oilChange")

====
